---- MODULE Spec2Model ----
(***************************************************************************)
(* ChromaStorageConnector (memgpt/connectors/chroma.py): the adapter       *)
(* between MemGPT records and a Chroma collection.                         *)
(*                                                                         *)
(* Python values are tagged records of one shape, so that any two values   *)
(* can be compared: k is the Python type, s/n the payload of a string      *)
(* (the string s followed by the decimal n, n = 0 meaning s alone), n/u    *)
(* the seconds and microseconds of a datetime, n the integer of an int,    *)
(* v the elements of a list of numbers, m the items of a dict.  A dict is  *)
(* the sequence of its items in insertion order.                           *)
(***************************************************************************)
EXTENDS Integers, Sequences, FiniteSets, TLC

VARIABLES
    heap,       \* the caller's record objects: object -> its __dict__
    orig,       \* the __dict__ every object was constructed with (history)
    filters,    \* self.filters, the connector's default filters
    store,      \* the rows of self.collection, in insertion order
    lastCall,   \* the last backend call of the latest operation
    ret,        \* the latest operation, its arguments and its outcome
    gen         \* the generator get_all_paginated gave its caller

vars == <<heap, orig, filters, store, lastCall, ret, gen>>

---------------------------------------------------------------------------
(* Bounds *)

NumObjs == 2        \* caller record objects
MaxBatch == 2       \* longest list passed to insert_many
MaxTopK == 2        \* largest top_k, limit and page size
MaxSmall == 5       \* largest small pre-loaded collection (SpecPages, SpecBulk)
MaxBulk == 102      \* largest pre-loaded collection (SpecBulk)

(* Program constants *)

SizePageSize == 100 \* the page_size size() passes to get_all_paginated

Objs == 1..NumObjs

---------------------------------------------------------------------------
(* Python values *)

Val(k, s, n, u, v, m) == [k |-> k, s |-> s, n |-> n, u |-> u, v |-> v, m |-> m]
None == Val("None", "", 0, 0, <<>>, <<>>)
Str(s) == Val("str", s, 0, 0, <<>>, <<>>)
StrN(s, n) == Val("str", s, n, 0, <<>>, <<>>)
PyInt(n) == Val("int", "", n, 0, <<>>, <<>>)
Datetime(sec, usec) == Val("datetime", "", sec, usec, <<>>, <<>>)
List(v) == Val("list", "", 0, 0, v, <<>>)
Dict(m) == Val("dict", "", 0, 0, <<>>, m)

\* bool(x) for the values any() meets: None and the empty list are false
Truthy(x) == ~(x.k = "None" \/ (x.k = "list" /\ Len(x.v) = 0))

(* dicts: sequences of items [key, val], keys unique *)
Item(key, val) == [key |-> key, val |-> val]
Keys(d) == {d[i].key : i \in 1..Len(d)}
Has(d, key) == key \in Keys(d)
At(d, key) == d[CHOOSE i \in 1..Len(d) : d[i].key = key].val
Pop(d, key) == SelectSeq(d, LAMBDA it : it.key # key)
\* d[key] = val: in place when the key is there, appended otherwise
Set(d, key, val) ==
    IF Has(d, key)
    THEN [i \in 1..Len(d) |-> IF d[i].key = key THEN Item(key, val) ELSE d[i]]
    ELSE Append(d, Item(key, val))

RECURSIVE Merge(_, _)
\* the dict a updated with the items of b
Merge(a, b) == IF b = <<>> THEN a ELSE Merge(Set(a, Head(b).key, Head(b).val), Tail(b))

\* dict equality does not look at the order of the items
DictEq(a, b) == Keys(a) = Keys(b) /\ \A key \in Keys(a) : At(a, key) = At(b, key)

RECURSIVE Concat(_)
Concat(ss) == IF ss = <<>> THEN <<>> ELSE Head(ss) \o Concat(Tail(ss))

Min(a, b) == IF a < b THEN a ELSE b

---------------------------------------------------------------------------
(* memgpt.utils *)

\* int(dt.timestamp()): the sub-second part is cut
datetime_to_timestamp(dt) == PyInt(dt.n)
timestamp_to_datetime(ts) == Datetime(ts.n, 0)

(* memgpt.data_types: the record constructor keeps its keyword arguments as
   the attributes of the new record *)
NewRecord(kwargs) == kwargs

\* str(x): a string is itself, anything else becomes the string that prints it
str(x) == IF x.k = "str" THEN x ELSE [x EXCEPT !.k = "str", !.s = x.k]

---------------------------------------------------------------------------
(* Record <-> row mapper *)

Ok(fields) == [err |-> ""] @@ fields
Raise(err) == [err |-> err]

\* the dict comprehension of line 118: the items whose value is not None
DropNone(metadata) == SelectSeq(metadata, LAMBDA it : it.val # None)

\* line 119: the flat attributes first, the nested metadata over them
MergeMetadata(metadata, record_metadata) == Merge(metadata, record_metadata)

(* One pass of the loop of format_records over the object whose __dict__ is
   d.  vars(record) is the object's own __dict__, so every pop and assignment
   up to line 115 is made on the caller's object: obj is what is left of it. *)
FormatOne(d) ==
    IF ~Has(d, "id") THEN Raise("KeyError") @@ [obj |-> d]
    ELSE
    LET d1 == Pop(Pop(Pop(d, "id"), "text"), "embedding")
        d2 == IF Has(d1, "created_at")
              THEN Set(d1, "created_at", datetime_to_timestamp(At(d1, "created_at")))
              ELSE d1
    IN  IF Has(d2, "metadata") /\ At(d2, "metadata").k # "dict"
        THEN Raise("TypeError") @@ [obj |-> d2]       \* dict(None)
        ELSE
        LET record_metadata == IF Has(d2, "metadata") THEN At(d2, "metadata").m ELSE <<>>
            d3 == Pop(d2, "metadata")
        IN  Ok([obj |-> d3, metadata |-> MergeMetadata(DropNone(d3), record_metadata)])

RECURSIVE FormatLoop(_, _, _, _)
FormatLoop(h, records, i, metadatas) ==
    IF i > Len(records) THEN Ok([heap |-> h, metadatas |-> metadatas])
    ELSE
    LET one == FormatOne(h[records[i]])
        h1 == [h EXCEPT ![records[i]] = one.obj]
    IN  IF one.err # "" THEN Raise(one.err) @@ [heap |-> h1]
        ELSE FormatLoop(h1, records, i + 1, Append(metadatas, one.metadata))

(* format_records(records) on the heap h; records is the list of the objects
   passed.  The three comprehensions read the attributes before the loop
   takes them out. *)
format_records(h, records) ==
    IF \E i \in 1..Len(records) : \E a \in {"id", "text", "embedding"} : ~Has(h[records[i]], a)
    THEN Raise("AttributeError") @@ [heap |-> h]
    ELSE
    LET loop == FormatLoop(h, records, 1, <<>>)
    IN  IF loop.err # "" THEN loop
        ELSE Ok([heap |-> loop.heap,
                 ids |-> [i \in 1..Len(records) |-> str(At(h[records[i]], "id"))],
                 documents |-> [i \in 1..Len(records) |-> At(h[records[i]], "text")],
                 embeddings |-> [i \in 1..Len(records) |-> At(h[records[i]], "embedding")],
                 metadatas |-> loop.metadatas])

(* What the client hands back.  included: "embeddings" was asked for, so the
   field is a list and not None.  nested: the result of collection.query,
   whose every field is a list with one list per query embedding.  err: the
   client raised and handed nothing back. *)
Results(ids, documents, embeddings, metadatas, included, nested) ==
    [err |-> "", ids |-> ids, documents |-> documents, embeddings |-> embeddings,
     metadatas |-> metadatas, included |-> included, nested |-> nested]

\* lines 70-72
ConvertCreatedAt(metadata) ==
    IF Has(metadata, "created_at")
    THEN Set(metadata, "created_at", timestamp_to_datetime(At(metadata, "created_at")))
    ELSE metadata

(* The record of one tuple of the zip of line 76: the tuple is (document,
   id, embedding, metadata) and is unpacked as (text, embedding, id,
   metadatas). *)
RecordWithEmbedding(document, id, embedding, metadata) ==
    NewRecord(<<Item("text", document), Item("embedding", id), Item("id", embedding)>> \o metadata)

\* line 83
RecordNoEmbedding(document, id, metadata) ==
    NewRecord(<<Item("text", document), Item("id", id)>> \o metadata)

results_to_records(results) ==
    IF results.nested
    THEN \* every zipped tuple holds lists: a list after the double star
         IF Len(results.documents) > 0 THEN Raise("TypeError") ELSE Ok([records |-> <<>>])
    ELSE
    LET metadatas == [i \in 1..Len(results.metadatas) |-> ConvertCreatedAt(results.metadatas[i])]
        n == Len(results.documents)
        \* a keyword given twice: a metadata key that is also named in the call
        twice(named) == \E i \in 1..n : Keys(metadatas[i]) \cap named # {}
    IN  IF results.included /\ Len(results.embeddings) > 0
        THEN IF twice({"text", "embedding", "id"}) THEN Raise("TypeError")
             ELSE Ok([records |-> [i \in 1..n |->
                        RecordWithEmbedding(results.documents[i], results.ids[i],
                                            results.embeddings[i], metadatas[i])]])
        ELSE IF twice({"text", "id"}) THEN Raise("TypeError")
             ELSE Ok([records |-> [i \in 1..n |->
                        RecordNoEmbedding(results.documents[i], results.ids[i],
                                          metadatas[i])]])

---------------------------------------------------------------------------
(* The Chroma collection behind self.collection.  A row is what add stored:
   its id, document, embedding and metadata. *)

Row(id, document, embedding, metadata) ==
    [id |-> id, document |-> document, embedding |-> embedding, metadata |-> metadata]

\* the collection's embedding function, used when add is given no embeddings
DefaultEmbedding(document) == List(<<document.n>>)

(* The client validates where before it reads a row: the list under "$and"
   must hold two expressions at least, or the call raises ValueError. *)
ValidWhere(where) == Len(where) >= 2

\* the call refused by the validation
Refused == [Results(<<>>, <<>>, <<>>, <<>>, FALSE, FALSE) EXCEPT !.err = "ValueError"]

(* where = {"$and": [{key: {"$eq": val}}, ...]}, held as the list under
   "$and"; the rows a validated where selects *)
Matches(metadata, where) ==
    \A i \in 1..Len(where) :
        /\ where[i].op = "$eq"
        /\ Has(metadata, where[i].key)
        /\ At(metadata, where[i].key) = where[i].val

Matching(rows, where) == SelectSeq(rows, LAMBDA r : Matches(r.metadata, where))

Field(rows, f) == [i \in 1..Len(rows) |-> rows[i][f]]

FlatResults(rows, included) ==
    Results(Field(rows, "id"), Field(rows, "document"),
            IF included THEN Field(rows, "embedding") ELSE <<>>,
            Field(rows, "metadata"), included, FALSE)

\* collection.get(offset=, limit=, include=self.include, where=); limit None: no limit
ChromaGetWhere(rows, where, offset, limit) ==
    LET sel == Matching(rows, where)
        last == IF limit = None THEN Len(sel) ELSE Min(Len(sel), offset + limit.n)
    IN  IF ~ValidWhere(where) THEN Refused
        ELSE FlatResults(SubSeq(sel, offset + 1, last), TRUE)

\* collection.get(ids=[id]): the default include leaves the embeddings out
ChromaGetIds(rows, ids) ==
    FlatResults(SelectSeq(rows, LAMBDA r : \E i \in 1..Len(ids) : r.id = ids[i]), FALSE)

RECURSIVE SquaredL2(_, _)
SquaredL2(a, b) ==
    IF a = <<>> \/ b = <<>> THEN 0
    ELSE (Head(a) - Head(b)) * (Head(a) - Head(b)) + SquaredL2(Tail(a), Tail(b))

RECURSIVE Ranked(_, _)
\* rows by distance to query_vec, nearest first, equal distances in stored order
Ranked(rows, query_vec) ==
    IF rows = <<>> THEN <<>>
    ELSE
    LET dist(i) == SquaredL2(rows[i].embedding.v, query_vec.v)
        best == CHOOSE i \in 1..Len(rows) :
                    \A j \in 1..Len(rows) : dist(i) < dist(j) \/ (dist(i) = dist(j) /\ i <= j)
    IN  <<rows[best]>> \o Ranked(SubSeq(rows, 1, best - 1) \o SubSeq(rows, best + 1, Len(rows)),
                                 query_vec)

\* the n_results nearest rows that match where
Nearest(rows, query_vec, n_results, where) ==
    LET ranked == Ranked(Matching(rows, where), query_vec)
    IN  SubSeq(ranked, 1, Min(Len(ranked), n_results))

\* collection.query(query_embeddings=[query_vec], ...): one inner list per query
ChromaQuery(rows, query_vec, n_results, where) ==
    LET flat == FlatResults(Nearest(rows, query_vec, n_results, where), TRUE)
    IN  IF ~ValidWhere(where) THEN Refused
        ELSE Results(<<flat.ids>>, <<flat.documents>>, <<flat.embeddings>>,
                     <<flat.metadatas>>, TRUE, TRUE)

(* collection.add: a None among the metadata values, or among the embeddings
   given, is refused and nothing is stored. *)
ChromaAdd(rows, ids, documents, withEmbeddings, embeddings, metadatas) ==
    IF \/ \E i \in 1..Len(metadatas) : \E j \in 1..Len(metadatas[i]) : metadatas[i][j].val = None
       \/ withEmbeddings /\ \E i \in 1..Len(embeddings) : embeddings[i].k # "list"
    THEN Raise("ValueError") @@ [rows |-> rows]
    ELSE Ok([rows |-> rows \o [i \in 1..Len(ids) |->
                Row(ids[i], documents[i],
                    IF withEmbeddings THEN embeddings[i] ELSE DefaultEmbedding(documents[i]),
                    metadatas[i])]])

\* collection.delete(where=): a where that is refused deletes nothing
ChromaDelete(rows, where) ==
    IF ~ValidWhere(where) THEN Raise("ValueError") @@ [rows |-> rows]
    ELSE Ok([rows |-> SelectSeq(rows, LAMBDA r : ~Matches(r.metadata, where))])

---------------------------------------------------------------------------
(* ChromaStorageConnector *)

\* the merge the other way round: a default wins over the caller's value
MergeFiltersDefaultsWin(defaults, callerFilters) == Merge(callerFilters, defaults)

\* line 38: the defaults updated with the caller's filters
MergeFilters(defaults, callerFilters) == Merge(defaults, callerFilters)

\* {key: {"$eq": value}}
EqClause(key, value) == [key |-> key, op |-> "$eq", val |-> value]

\* get_filters(filters): callerFilters is None or a dict
get_filters(defaults, callerFilters) ==
    LET filter_conditions ==
            IF callerFilters # None THEN MergeFilters(defaults, callerFilters.m) ELSE defaults
    IN  [i \in 1..Len(filter_conditions) |->
            EqClause(filter_conditions[i].key, filter_conditions[i].val)]

\* line 66
NextOffset(offset, page_size) == offset + page_size

\* line 59: the chunk is empty
IsLastChunk(results) == Len(results.embeddings) = 0

(* One pass of the loop of get_all_paginated, lines 53 to 63: the chunk at
   offset is read, or the read raises; an empty chunk ends the generator
   (last), any other is converted and yielded, or the conversion raises. *)
Page(rows, where, page_size, offset) ==
    LET results == ChromaGetWhere(rows, where, offset, PyInt(page_size))
        batch == results_to_records(results)
    IN  IF results.err # "" THEN [last |-> FALSE, err |-> results.err, records |-> <<>>]
        ELSE IF IsLastChunk(results) THEN [last |-> TRUE, err |-> "", records |-> <<>>]
        ELSE IF batch.err # "" THEN [last |-> FALSE, err |-> batch.err, records |-> <<>>]
        ELSE [last |-> FALSE, err |-> "", records |-> batch.records]

RECURSIVE PagesFrom(_, _, _, _)
(* The batches of a generator that its caller runs from offset to its end
   with no other call in between, as the for loop of size does. *)
PagesFrom(rows, where, page_size, offset) ==
    LET page == Page(rows, where, page_size, offset)
    IN  IF page.last THEN Ok([batches |-> <<>>])
        ELSE IF page.err # "" THEN Raise(page.err) @@ [batches |-> <<>>]
        ELSE LET rest == PagesFrom(rows, where, page_size, NextOffset(offset, page_size))
             IN  [rest EXCEPT !.batches = <<page.records>> \o @]

get_all(rows, defaults, limit, callerFilters) ==
    LET results == ChromaGetWhere(rows, get_filters(defaults, callerFilters), 0, limit)
    IN  IF results.err # "" THEN Raise(results.err) ELSE results_to_records(results)

(* get(id, filters): the composed filters are computed and the collection
   is asked for the id alone. *)
get(rows, defaults, id, callerFilters) ==
    LET where == get_filters(defaults, callerFilters)
        results == ChromaGetIds(rows, <<id>>)
        found == results_to_records(results)
    IN  IF Len(results.ids) = 0 THEN Ok([kind |-> "None", records |-> <<>>])
        ELSE IF found.err # "" THEN Raise(found.err)
        ELSE Ok([kind |-> "ok", records |-> <<found.records[1]>>])

\* line 152
SizeAccumulate(count, records) == count + Len(records)

RECURSIVE SumBatches(_, _)
SumBatches(batches, count) ==
    IF batches = <<>> THEN count
    ELSE SumBatches(Tail(batches), SizeAccumulate(count, Head(batches)))

size(rows, defaults, callerFilters) ==
    LET pages == PagesFrom(rows, get_filters(defaults, callerFilters), SizePageSize, 0)
    IN  IF pages.err # "" THEN Raise(pages.err) ELSE Ok([count |-> SumBatches(pages.batches, 0)])

query(rows, defaults, query_vec, top_k, callerFilters) ==
    LET results == ChromaQuery(rows, query_vec, top_k, get_filters(defaults, callerFilters))
    IN  IF results.err # "" THEN Raise(results.err) ELSE results_to_records(results)

\* the truth of the list itself: a list of None is not empty
AnyEmbeddingOfList(embeddings) == Len(embeddings) > 0

\* any(embeddings)
AnyEmbedding(embeddings) == \E i \in 1..Len(embeddings) : Truthy(embeddings[i])

query_date(rows) == Raise("ValueError")

\* the body left in comments after the raise: a query of the collection
query_text_emulated(rows) == results_to_records(FlatResults(rows, TRUE))

query_text(rows) == Raise("ValueError")
list_data_sources(rows) == Raise("NotImplementedError")

---------------------------------------------------------------------------
(* Inputs *)

U1 == Str("u1")
U2 == Str("u2")
A1 == Str("a1")

TemplateNames == <<"full", "foreign", "plain", "nullmeta", "nometa">>

(* The __dict__ of a fresh record object o, by template.  Every object has its
   own id. *)
Template(o, t) ==
    LET base(embedding, user, agent) ==
            <<Item("id", StrN("id", o)), Item("text", StrN("text", o)),
              Item("embedding", embedding), Item("user_id", user), Item("agent_id", agent)>>
    IN  CASE t = "full" ->
                base(List(<<o>>), U1, A1)
                    \o <<Item("created_at", Datetime(10 * o, 5)),
                         Item("metadata", Dict(<<Item("k", Str("v"))>>))>>
          [] t = "foreign" ->
                base(List(<<o + 1>>), U2, None) \o <<Item("metadata", Dict(<<>>))>>
          [] t = "plain" ->
                base(None, U1, A1) \o <<Item("created_at", Datetime(o, 0))>>
          [] t = "nullmeta" ->
                base(None, U1, A1) \o <<Item("metadata", Dict(<<Item("k", None)>>))>>
          [] t = "nometa" ->
                base(List(<<o>>), U1, A1) \o <<Item("metadata", None)>>

\* self.filters, set by StorageConnector.__init__ from the table type
DefaultFilters ==
    { <<Item("user_id", U1)>>, <<Item("user_id", U1), Item("agent_id", A1)>> }

\* the filters argument: None, empty, overriding a default, adding a key
CallerFilters ==
    { None, Dict(<<>>), Dict(<<Item("user_id", U2)>>), Dict(<<Item("k", Str("v"))>>) }

\* the record lists passed to insert_many: distinct objects, or one object twice
Batches ==
    {b \in UNION {[1..n -> Objs] : n \in 1..MaxBatch} :
        \A i, j \in 1..Len(b) : b[i] = b[j] => i = j}
    \cup {<<o, o>> : o \in Objs}

(* The objects the caller holds: all of template number first, or object o
   of template number first + o - 1, counted round the list of templates. *)
Heap(first, same) ==
    [o \in Objs |->
        Template(o, TemplateNames[IF same THEN first
                                  ELSE ((first + o - 2) % Len(TemplateNames)) + 1])]

RecordIds == {StrN("id", o) : o \in 0..NumObjs}

QueryVecs == {List(<<0>>)}

---------------------------------------------------------------------------
(* State *)

NoCall ==
    [op |-> "none", ids |-> <<>>, documents |-> <<>>, withEmbeddings |-> FALSE,
     embeddings |-> <<>>, metadatas |-> <<>>, usesWhere |-> FALSE, where |-> <<>>]

AddCall(ids, documents, withEmbeddings, embeddings, metadatas) ==
    [NoCall EXCEPT !.op = "add", !.ids = ids, !.documents = documents,
                   !.withEmbeddings = withEmbeddings,
                   !.embeddings = IF withEmbeddings THEN embeddings ELSE <<>>,
                   !.metadatas = metadatas]

ReadCall(op, usesWhere, where) ==
    [NoCall EXCEPT !.op = op, !.usesWhere = usesWhere, !.where = where]

\* an operation and its arguments, before its outcome is known
Called(op, batch, id, callerFilters, n, query_vec) ==
    [op |-> op, batch |-> batch, id |-> id, callerFilters |-> callerFilters, n |-> n,
     query_vec |-> query_vec, kind |-> "ok", err |-> "", records |-> <<>>,
     count |-> 0, where |-> <<>>]

Raised(call, err) == [call EXCEPT !.kind = "error", !.err = err]

(* The generator object of get_all_paginated.  status: "none" before any call,
   "created" when the call has returned and the body has not begun, "suspended"
   at the yield of line 63, "done" once the body has ended.  batches are the
   batches its caller has received; dirty says that the rows of the collection
   have changed since the body began (history). *)
NoGen ==
    [status |-> "none", page_size |-> 0, callerFilters |-> None, where |-> <<>>,
     offset |-> 0, batches |-> <<>>, err |-> "", dirty |-> FALSE]

\* the generator after an operation that leaves the collection with rows
Dirtied(g, rows) ==
    IF g.status \in {"suspended", "done"} /\ rows # store
    THEN [g EXCEPT !.dirty = TRUE] ELSE g

Init ==
    /\ \E first \in 1..Len(TemplateNames), same \in BOOLEAN : heap = Heap(first, same)
    /\ orig = heap
    /\ filters \in DefaultFilters
    /\ store = <<>>
    /\ lastCall = NoCall
    /\ ret = Called("init", <<>>, None, None, 0, None)
    /\ gen = NoGen

---------------------------------------------------------------------------
(* Operations *)

\* the body insert and insert_many share
InsertRecords(op, records) ==
    LET call == Called(op, records, None, None, 0, None)
        fr == format_records(heap, records)
        withEmbeddings == AnyEmbedding(fr.embeddings)
        added == ChromaAdd(store, fr.ids, fr.documents, withEmbeddings, fr.embeddings,
                           fr.metadatas)
    IN  /\ heap' = fr.heap
        /\ IF fr.err # ""
           THEN /\ store' = store
                /\ lastCall' = NoCall
                /\ ret' = Raised(call, fr.err)
           ELSE /\ store' = added.rows
                /\ lastCall' = AddCall(fr.ids, fr.documents, withEmbeddings, fr.embeddings,
                                       fr.metadatas)
                /\ ret' = IF added.err # "" THEN Raised(call, added.err)
                          ELSE [call EXCEPT !.kind = "None"]
        /\ gen' = Dirtied(gen, IF fr.err # "" THEN store ELSE added.rows)
        /\ UNCHANGED <<orig, filters>>

\* format_records called by the caller itself
FormatRecords(records) ==
    LET call == Called("format_records", records, None, None, 0, None)
        fr == format_records(heap, records)
    IN  /\ heap' = fr.heap
        /\ ret' = IF fr.err # "" THEN Raised(call, fr.err) ELSE call
        /\ lastCall' = NoCall
        /\ UNCHANGED <<orig, filters, store, gen>>

Insert(o) == InsertRecords("insert", <<o>>)

InsertMany(records) == InsertRecords("insert_many", records)

Delete(callerFilters) ==
    LET call == Called("delete", <<>>, None, callerFilters, 0, None)
        where == get_filters(filters, callerFilters)
        deleted == ChromaDelete(store, where)
    IN  /\ store' = deleted.rows
        /\ lastCall' = ReadCall("delete", TRUE, where)
        /\ ret' = IF deleted.err # "" THEN Raised(call, deleted.err)
                  ELSE [call EXCEPT !.kind = "None"]
        /\ gen' = Dirtied(gen, deleted.rows)
        /\ UNCHANGED <<heap, orig, filters>>

GetFilters(callerFilters) ==
    /\ ret' = [Called("get_filters", <<>>, None, callerFilters, 0, None)
                 EXCEPT !.where = get_filters(filters, callerFilters)]
    /\ lastCall' = NoCall
    /\ UNCHANGED <<heap, orig, filters, store, gen>>

Get(id, callerFilters) ==
    LET call == Called("get", <<>>, id, callerFilters, 0, None)
        out == get(store, filters, id, callerFilters)
    IN  /\ ret' = IF out.err # "" THEN Raised(call, out.err)
                  ELSE [call EXCEPT !.kind = out.kind, !.records = out.records]
        /\ lastCall' = ReadCall("get", FALSE, <<>>)
        /\ UNCHANGED <<heap, orig, filters, store, gen>>

GetAll(limit, callerFilters) ==
    LET call == Called("get_all", <<>>, None, callerFilters, limit, None)
        out == get_all(store, filters, PyInt(limit), callerFilters)
    IN  /\ ret' = IF out.err # "" THEN Raised(call, out.err)
                  ELSE [call EXCEPT !.records = out.records]
        /\ lastCall' = ReadCall("get", TRUE, get_filters(filters, callerFilters))
        /\ UNCHANGED <<heap, orig, filters, store, gen>>

(* get_all_paginated(page_size, filters): the call returns a generator and
   runs nothing of the body.  The caller keeps one generator, the latest. *)
GetAllPaginated(page_size, callerFilters) ==
    /\ gen' = [NoGen EXCEPT !.status = "created", !.page_size = page_size,
                            !.callerFilters = callerFilters]
    /\ ret' = Called("get_all_paginated", <<>>, None, callerFilters, page_size, None)
    /\ lastCall' = NoCall
    /\ UNCHANGED <<heap, orig, filters, store>>

(* next(generator): the body runs to its next yield or to its end.  The first
   next runs lines 49 and 50, a later one resumes at line 66; a generator that
   has ended raises StopIteration again.  Each pass asks the collection for
   its count (the print of line 54), then for the chunk. *)
NextPage ==
    LET call == Called("next", <<>>, None, gen.callerFilters, gen.page_size, None)
        first == gen.status = "created"
        where == IF first THEN get_filters(filters, gen.callerFilters) ELSE gen.where
        offset == IF first THEN 0 ELSE NextOffset(gen.offset, gen.page_size)
        page == Page(store, where, gen.page_size, offset)
    IN  /\ gen.status # "none"
        /\ IF gen.status = "done"
           THEN /\ ret' = Raised(call, "StopIteration")
                /\ lastCall' = NoCall
                /\ gen' = gen
           ELSE /\ ret' = IF page.last THEN Raised(call, "StopIteration")
                          ELSE IF page.err # "" THEN Raised(call, page.err)
                          ELSE [call EXCEPT !.records = page.records]
                /\ lastCall' = ReadCall("get", TRUE, where)
                /\ gen' = [gen EXCEPT
                              !.status = IF page.last \/ page.err # "" THEN "done"
                                         ELSE "suspended",
                              !.where = where,
                              !.offset = offset,
                              !.err = page.err,
                              !.batches = IF page.last \/ page.err # "" THEN @
                                          ELSE Append(@, page.records),
                              !.dirty = IF first THEN FALSE ELSE @]
        /\ UNCHANGED <<heap, orig, filters, store>>

Size(callerFilters) ==
    LET call == Called("size", <<>>, None, callerFilters, 0, None)
        out == size(store, filters, callerFilters)
    IN  /\ ret' = IF out.err # "" THEN Raised(call, out.err)
                  ELSE [call EXCEPT !.count = out.count]
        /\ lastCall' = ReadCall("get", TRUE, get_filters(filters, callerFilters))
        /\ UNCHANGED <<heap, orig, filters, store, gen>>

Query(query_vec, top_k, callerFilters) ==
    LET call == Called("query", <<>>, None, callerFilters, top_k, query_vec)
        out == query(store, filters, query_vec, top_k, callerFilters)
    IN  /\ ret' = IF out.err # "" THEN Raised(call, out.err)
                  ELSE [call EXCEPT !.records = out.records]
        /\ lastCall' = ReadCall("query", TRUE, get_filters(filters, callerFilters))
        /\ UNCHANGED <<heap, orig, filters, store, gen>>

\* an operation that only raises: out is what it raised or returned
Unsupported(op, out) ==
    LET call == Called(op, <<>>, None, None, 0, None)
    IN  /\ ret' = IF out.err # "" THEN Raised(call, out.err)
                  ELSE [call EXCEPT !.records = out.records]
        /\ lastCall' = IF out.err # "" THEN NoCall ELSE ReadCall("query", TRUE, <<>>)
        /\ UNCHANGED <<heap, orig, filters, store, gen>>

QueryDate == Unsupported("query_date", query_date(store))

QueryText == Unsupported("query_text", query_text(store))

ListDataSources == Unsupported("list_data_sources", list_data_sources(store))

Save ==
    /\ ret' = [Called("save", <<>>, None, None, 0, None) EXCEPT !.kind = "None"]
    /\ lastCall' = NoCall
    /\ UNCHANGED <<heap, orig, filters, store, gen>>

\* the operations that begin and end within one call
NextCalls ==
    \/ \E o \in Objs : Insert(o)
    \/ \E records \in Batches : InsertMany(records)
    \/ \E o \in Objs : FormatRecords(<<o>>)
    \/ \E f \in CallerFilters : Delete(f)
    \/ \E f \in CallerFilters : GetFilters(f)
    \/ \E id \in RecordIds, f \in CallerFilters : Get(id, f)
    \/ \E limit \in 1..MaxTopK, f \in CallerFilters : GetAll(limit, f)
    \/ \E f \in CallerFilters : Size(f)
    \/ \E q \in QueryVecs, top_k \in 1..MaxTopK, f \in CallerFilters : Query(q, top_k, f)
    \/ QueryDate
    \/ QueryText
    \/ ListDataSources
    \/ Save

\* the generator: its creation and its pages, between any other calls
NextGenerator ==
    \/ \E page_size \in 1..MaxTopK, f \in CallerFilters : GetAllPaginated(page_size, f)
    \/ NextPage

Next == NextCalls \/ NextGenerator

Spec == Init /\ [][Next]_vars

(* The connector of a caller that holds no generator.  No operation of
   NextCalls reads gen, and the generator changes none of heap, store and
   filters, so the operations of NextCalls meet here every heap, store and
   filters they meet under Spec. *)
SpecCalls == Init /\ [][NextCalls]_vars

---------------------------------------------------------------------------
(* Reads of a collection that already holds rows.  The rows are those add
   stores for records of the templates "full" and, in the pattern "third"
   for every third row, "foreign"; their ids are not those of the caller's
   record objects. *)

BulkRow(i, pattern) ==
    LET d == Template(NumObjs + i,
                      IF pattern = "third" /\ i % 3 = 0 THEN "foreign" ELSE "full")
    IN  Row(str(At(d, "id")), At(d, "text"), At(d, "embedding"), FormatOne(d).metadata)

\* a connector whose collection holds one of the given numbers of rows
Preloaded(sizes) ==
    /\ heap = Heap(1, TRUE)
    /\ orig = heap
    /\ filters \in DefaultFilters
    /\ \E n \in sizes, pattern \in {"all", "third"} :
            store = [i \in 1..n |-> BulkRow(i, pattern)]
    /\ lastCall = NoCall
    /\ ret = Called("init", <<>>, None, None, 0, None)
    /\ gen = NoGen

InitBulk == Preloaded((0..MaxSmall) \cup (SizePageSize - 1 .. MaxBulk))

NextBulk ==
    \/ \E f \in CallerFilters : /\ Len(store) > 0
                                 /\ GetAll(Len(store), f)
    \/ \E f \in CallerFilters : Size(f)

SpecBulk == InitBulk /\ [][NextBulk]_vars

(* The generator over a small collection, with deletes and the insert of a
   record between its pages. *)
InitPages == Preloaded(0..MaxSmall)

NextPages ==
    \/ NextGenerator
    \/ \E f \in CallerFilters : Delete(f)
    \/ Insert(1)

SpecPages == InitPages /\ [][NextPages]_vars

---------------------------------------------------------------------------
(* The mapper alone: a record through format_records and the rows it gives
   through results_to_records. *)

RoundTrip(o) ==
    LET call == Called("round_trip", <<o>>, None, None, 0, None)
        fr == format_records(heap, <<o>>)
        back == results_to_records(
                    Results(fr.ids, fr.documents, fr.embeddings, fr.metadatas, TRUE, FALSE))
    IN  /\ heap' = fr.heap
        /\ ret' = IF fr.err # "" THEN Raised(call, fr.err)
                  ELSE IF back.err # "" THEN Raised(call, back.err)
                  ELSE [call EXCEPT !.records = back.records]
        /\ UNCHANGED <<orig, filters, store, lastCall, gen>>

NextMapper == \E o \in Objs : RoundTrip(o)

SpecMapper == Init /\ [][NextMapper]_vars

---------------------------------------------------------------------------
(* Claims *)

Composed(callerFilters) == get_filters(filters, callerFilters)

\* the i-th object passed to the latest operation, as it was constructed
Passed(i) == orig[ret.batch[i]]

(* C1: a record with an embedding and a metadata dict, no None value and no
   created_at among its metadata keys, comes back from format_records followed
   by results_to_records as one record with the same id, text, embedding and
   metadata fields, and the created_at the integer timestamp stands for. *)
C1_RoundTripCase(r) ==
    /\ Has(r, "id") /\ Has(r, "text") /\ Has(r, "embedding")
    /\ At(r, "embedding").k = "list"
    /\ Has(r, "metadata") /\ At(r, "metadata").k = "dict"
    /\ \A i \in 1..Len(r) : r[i].val # None
    /\ \A i \in 1..Len(At(r, "metadata").m) :
            At(r, "metadata").m[i].val # None /\ At(r, "metadata").m[i].key # "created_at"

C1_SameRecord(back, r) ==
    /\ \A a \in {"id", "text", "embedding", "user_id", "agent_id"} :
            Has(back, a) /\ At(back, a) = At(r, a)
    /\ Has(r, "created_at") =>
            /\ Has(back, "created_at")
            /\ At(back, "created_at")
                    = timestamp_to_datetime(datetime_to_timestamp(At(r, "created_at")))
    /\ \A i \in 1..Len(At(r, "metadata").m) :
            LET it == At(r, "metadata").m[i]
            IN  Has(back, it.key) /\ At(back, it.key) = it.val

C1_RoundTrip ==
    [][(ret'.op = "round_trip" /\ C1_RoundTripCase(heap[ret'.batch[1]])) =>
            /\ ret'.kind = "ok"
            /\ Len(ret'.records) = 1
            /\ C1_SameRecord(ret'.records[1], heap[ret'.batch[1]])]_vars

\* the generator has raised nothing and yielded what the collection holds
PaginatedAsClaimed ==
    LET N == Len(Matching(store, Composed(gen.callerFilters)))
        P == gen.page_size
    IN  /\ gen.err = ""
        /\ Len(gen.batches) <= (N + P - 1) \div P
        /\ \A i \in 1..Len(gen.batches) : Len(gen.batches[i]) > 0
        /\ gen.status = "done" =>
                /\ Len(gen.batches) = (N + P - 1) \div P
                /\ Concat(gen.batches)
                        = get_all(store, filters, PyInt(N), gen.callerFilters).records

(* C2: a generator of get_all_paginated with page size P, over a collection
   that has not changed since its body began and holds N rows that match the
   composed filters, has yielded non-empty batches, at most ceil(N / P) of
   them, and has raised nothing; once it has ended it has yielded
   ceil(N / P) batches whose concatenation is get_all(limit = N) with the
   same filters. *)
C2_Paginated ==
    (gen.status \in {"suspended", "done"} /\ ~gen.dirty) => PaginatedAsClaimed

\* the same, for composed filters of two keys or more, which the client accepts
PaginatedWhenAccepted ==
    (gen.status \in {"suspended", "done"} /\ ~gen.dirty /\ ValidWhere(gen.where))
        => PaginatedAsClaimed

\* one row more than a page: a full batch, then a batch of one record
AcceptedPages ==
    /\ gen.status = "done"
    /\ ~gen.dirty
    /\ gen.page_size > 1
    /\ Len(Matching(store, Composed(gen.callerFilters))) = gen.page_size + 1
    /\ Len(gen.batches) = 2
    /\ Len(gen.batches[2]) = 1

\* a delete between two pages: one batch received, and the collection empty
DeleteBetweenPages ==
    /\ gen.status = "done"
    /\ gen.dirty
    /\ Len(gen.batches) = 1
    /\ store = <<>>

(* C3: get(id, filters) returns None when no stored row has the id and
   satisfies the composed filters, and otherwise the record of such a row. *)
C3_GetScoped ==
    ret.op = "get" =>
        LET hits == SelectSeq(Matching(store, Composed(ret.callerFilters)),
                              LAMBDA r : r.id = ret.id)
        IN  \/ ret.kind = "None" /\ hits = <<>>
            \/ /\ ret.kind = "ok"
               /\ hits # <<>>
               /\ At(ret.records[1], "id") = ret.id

(* C4: no metadata dict handed to collection.add holds a None value. *)
C4_NoNullMetadata ==
    lastCall.op = "add" =>
        \A i \in 1..Len(lastCall.metadatas) :
            \A j \in 1..Len(lastCall.metadatas[i]) : lastCall.metadatas[i][j].val # None

\* an object that still has its id is as it was constructed
IntactWhileId == \A o \in Objs : Has(heap[o], "id") => heap[o] = orig[o]

(* C5: collection.add is called without embeddings when no record passed has
   one, and with the embeddings of the records, in the order of the ids and
   documents, when every record passed has one. *)
C5_EmbeddingsField ==
    lastCall.op = "add" =>
        LET n == Len(ret.batch)
            embeddings == [i \in 1..n |-> At(Passed(i), "embedding")]
        IN  /\ ret.op \in {"insert", "insert_many"}
            /\ (\A i \in 1..n : embeddings[i] = None) =>
                    ~lastCall.withEmbeddings /\ lastCall.embeddings = <<>>
            /\ (\A i \in 1..n : embeddings[i] # None) =>
                    /\ lastCall.withEmbeddings
                    /\ lastCall.embeddings = embeddings
                    /\ lastCall.ids = [i \in 1..n |-> At(Passed(i), "id")]
                    /\ lastCall.documents = [i \in 1..n |-> At(Passed(i), "text")]

\* insert_many of two records, neither with an embedding
C5_Witness ==
    /\ lastCall.op = "add"
    /\ ret.op = "insert_many"
    /\ Len(ret.batch) = 2
    /\ \A i \in 1..2 : At(Passed(i), "embedding") = None
    /\ ~lastCall.withEmbeddings

\* size has returned the number of rows get_all returns with no limit
SizeAsClaimed ==
    /\ ret.kind = "ok"
    /\ ret.count = Len(get_all(store, filters, None, ret.callerFilters).records)

(* C6: size(filters) is the number of stored rows that match the composed
   filters: the length of get_all with no limit. *)
C6_Size == ret.op = "size" => SizeAsClaimed

\* the same, for composed filters of two keys or more, which the client accepts
SizeWhenAccepted ==
    (ret.op = "size" /\ ValidWhere(Composed(ret.callerFilters))) => SizeAsClaimed

\* more matching rows than one page of size(), under a caller's filter
AcceptedSize ==
    /\ ret.op = "size"
    /\ ret.callerFilters = Dict(<<Item("k", Str("v"))>>)
    /\ ret.count > SizePageSize
    /\ ret.count = Len(store)

(* C7: query with top_k = k returns the k nearest rows that match the composed
   filters, nearest first, and all of them when fewer than k match. *)
C7_QueryTopK ==
    ret.op = "query" =>
        LET near == Nearest(store, ret.query_vec, ret.n, Composed(ret.callerFilters))
        IN  /\ ret.kind = "ok"
            /\ Len(ret.records) = Min(ret.n, Len(Matching(store, Composed(ret.callerFilters))))
            /\ \A i \in 1..Len(ret.records) :
                    i <= Len(near) /\ At(ret.records[i], "text") = near[i].document

(* C8: query_date, query_text and list_data_sources raise the error of an
   unsupported operation (ValueError for the two queries, NotImplementedError
   for list_data_sources) whatever the collection holds: they return no
   records, call the backend not once and leave the collection as it was. *)
UnsupportedOps == {"query_date", "query_text", "list_data_sources"}

UnsupportedOperation == {"ValueError", "NotImplementedError"}

C8_Unsupported ==
    [][ret'.op \in UnsupportedOps =>
            /\ ret'.kind = "error"
            /\ ret'.err \in UnsupportedOperation
            /\ ret'.records = <<>>
            /\ lastCall'.op = "none"
            /\ store' = store]_vars

C8_Witness ==
    /\ ret.op = "query_text"
    /\ ret.kind = "error"
    /\ Len(store) = NumObjs

(* C9: get_filters gives the defaults alone for None or empty caller filters,
   the caller's value for every key the caller gives, one $eq clause for each
   key of the merged dict and nothing else, and the same on a second call. *)
C9_GetFilters ==
    ret.op = "get_filters" =>
        LET caller == IF ret.callerFilters = None THEN <<>> ELSE ret.callerFilters.m
            where == ret.where
            clause(key) == CHOOSE c \in {where[i] : i \in 1..Len(where)} : c.key = key
        IN  /\ caller = <<>> =>
                where = [i \in 1..Len(filters) |->
                            [key |-> filters[i].key, op |-> "$eq", val |-> filters[i].val]]
            /\ {where[i].key : i \in 1..Len(where)} = Keys(filters) \cup Keys(caller)
            /\ Len(where) = Cardinality(Keys(filters) \cup Keys(caller))
            /\ \A i \in 1..Len(where) : where[i].op = "$eq"
            /\ \A key \in Keys(caller) : clause(key).val = At(caller, key)
            /\ \A key \in Keys(filters) \ Keys(caller) : clause(key).val = At(filters, key)
            /\ get_filters(filters, ret.callerFilters) = where

\* the caller's user_id over the default one, the default agent_id kept
C9_Witness ==
    /\ ret.op = "get_filters"
    /\ ret.callerFilters = Dict(<<Item("user_id", U2)>>)
    /\ Len(filters) = 2
    /\ ret.where = <<[key |-> "user_id", op |-> "$eq", val |-> U2],
                     [key |-> "agent_id", op |-> "$eq", val |-> A1]>>

(* C10: insert and insert_many leave every record object passed with the
   attributes, and the values, it had before the call. *)
C10_RecordsUnchanged ==
    [][ret'.op \in {"insert", "insert_many"} =>
            \A i \in 1..Len(ret'.batch) :
                DictEq(heap'[ret'.batch[i]], heap[ret'.batch[i]])]_vars

====
